---- MODULE Spec2Model ----
(***************************************************************************)
(* PhysicsObject of nunuStudio: a scene-graph node wrapping a cannon.js    *)
(* body.  The model covers the constructor, initialize(), update(),        *)
(* addShape() and toJSON() of source/core/objects/physics/PhysicsObject.js *)
(* over small scene graphs, with the editor and the physics world as the   *)
(* environment that moves nodes and bodies.                                *)
(***************************************************************************)
EXTENDS Integers, Sequences, FiniteSets, TLC

(* ------------------------------ bounds --------------------------------- *)
\* largest number of objects in a scene graph
NumNodes == 3
\* most addShape() calls made on one object
MaxShapes == 2

\* a vector or quaternion is abstracted to one coordinate; the calls only copy
\* and compare coordinates, so two values tell every case apart
Coords == {0, 1}

(* ------------------------------ state ---------------------------------- *)
VARIABLES
    parent,     \* object -> its parent object, null at a root (Object3D.parent)
    kind,       \* object -> "Scene" | "Object3D" | "Physics" | "Broken"
    obj,        \* PhysicsObject -> [position, quaternion, body, world]
    bodies,     \* body handle -> the fields of the CANNON.Body
    worlds,     \* Scene -> world.bodies, the handles registered with its world
    started,    \* objects whose initialize() has been entered
    selected,   \* the object attached to the editor panel (panel.obj)
    args,       \* PhysicsObject -> the arguments addShape() was called with
    ret         \* the last call: operation, receiver, thrown?, trace, value

vars == <<parent, kind, obj, bodies, worlds, started, selected, args, ret>>

null == 0

Nodes == DOMAIN parent
Physics == {n \in Nodes : kind[n] = "Physics"}
Scenes == {n \in Nodes : kind[n] = "Scene"}

\* this.children: the objects attached to n, in order of attachment
Children(n) ==
    SelectSeq([i \in 1..Cardinality(Nodes) |-> i], LAMBDA c : parent[c] = n)

(* --------------------------- constructor ------------------------------- *)
\* a constructor that leaves the body as CANNON.Body() makes it: static, massless
NewBodyUnconfigured ==
    [position |-> 0, quaternion |-> 0, type |-> "STATIC", mass |-> 0,
     fixedRotation |-> FALSE, shapes |-> <<>>]

\* new CANNON.Body() as configured by the constructor
NewBody ==
    [position |-> 0, quaternion |-> 0, type |-> "DYNAMIC", mass |-> 1,
     fixedRotation |-> FALSE, shapes |-> <<>>]

\* new PhysicsObject(): a node at the origin owning the fresh handle h
PhysicsObject(h) ==
    [position |-> 0, quaternion |-> 0, body |-> h, world |-> null]

(* ------------------------- call bookkeeping ---------------------------- *)
Result(op, n, threw, log, value) ==
    [op |-> op, node |-> n, threw |-> threw, log |-> log, value |-> value]

Event(e, n, a) == [ev |-> e, node |-> n, arg |-> a]

Heap == [obj |-> obj, bodies |-> bodies, worlds |-> worlds,
         threw |-> FALSE, log |-> <<>>]

Trace(H, e, n, a) == [H EXCEPT !.log = Append(@, Event(e, n, a))]

(* ---------------------------- initialize ------------------------------- *)
\* this.body.position.copy(this.position); this.body.quaternion.copy(...)
SeedBody(H, n) ==
    LET b == H.obj[n].body IN
    Trace([H EXCEPT !.bodies[b].position = H.obj[n].position,
                    !.bodies[b].quaternion = H.obj[n].quaternion],
          "seed", n, b)

\* this.world = node.world; this.world.addBody(this.body)
BindWorld(H, n, scene) ==
    Trace([H EXCEPT !.obj[n].world = scene,
                    !.worlds[scene] = Append(@, H.obj[n].body)],
          "addBody", n, scene)

\* while(node.parent !== null) { node = node.parent; if(node instanceof Scene) ... }
RECURSIVE GetWorld(_, _, _)
GetWorld(H, n, node) ==
    IF parent[node] = null
    THEN H
    ELSE IF kind[parent[node]] = "Scene"
         THEN GetWorld(BindWorld(H, n, parent[node]), n, parent[node])
         ELSE GetWorld(H, n, parent[node])

RECURSIVE initialize(_, _), initializeChildren(_, _, _)
\* n.initialize(): a Broken object's call raises; a PhysicsObject seeds its
\* body, binds a world and initializes its children
initialize(H, n) ==
    IF kind[n] # "Physics"
    THEN [Trace(H, "initialize", n, 0) EXCEPT !.threw = TRUE]
    ELSE LET H1 == initializeChildren(
                       Trace(GetWorld(SeedBody(Trace(H, "initialize", n, 0), n),
                                      n, n),
                             "bound", n, 0),
                       Children(n), 1)
         IN  IF H1.threw THEN H1 ELSE Trace(H1, "return", n, 0)

\* for(i = 0; i < this.children.length; i++) this.children[i].initialize();
\* an exception raised by a child leaves the loop and the caller
initializeChildren(H, cs, i) ==
    IF i > Len(cs)
    THEN H
    ELSE LET H1 == initialize(H, cs[i]) IN
         IF H1.threw THEN H1 ELSE initializeChildren(H1, cs, i + 1)

(* ------------------------------ update --------------------------------- *)
\* an update that copies the orientation whatever fixedRotation says
SyncNodeAlways(H, n) ==
    LET b == H.bodies[H.obj[n].body] IN
    [H EXCEPT !.obj[n].position = b.position,
              !.obj[n].quaternion = b.quaternion]

\* an update that tests fixedRotation the wrong way round
SyncNodeInverted(H, n) ==
    LET b == H.bodies[H.obj[n].body] IN
    [H EXCEPT !.obj[n].position = b.position,
              !.obj[n].quaternion =
                  IF b.fixedRotation THEN b.quaternion ELSE @]

\* an update that copies the position only when the rotation is free
SyncNodeGuarded(H, n) ==
    LET b == H.bodies[H.obj[n].body] IN
    IF ~b.fixedRotation
    THEN [H EXCEPT !.obj[n].position = b.position,
                   !.obj[n].quaternion = b.quaternion]
    ELSE H

\* this.position.copy(this.body.position); if(!fixedRotation) quaternion.copy
SyncNode(H, n) ==
    LET b == H.bodies[H.obj[n].body] IN
    [H EXCEPT !.obj[n].position = b.position,
              !.obj[n].quaternion =
                  IF ~b.fixedRotation THEN b.quaternion ELSE @]

RECURSIVE update(_, _), updateChildren(_, _, _)
update(H, n) ==
    IF kind[n] # "Physics"
    THEN [Trace(H, "update", n, 0) EXCEPT !.threw = TRUE]
    ELSE LET H1 == updateChildren(SyncNode(Trace(H, "update", n, 0), n),
                                  Children(n), 1)
         IN  IF H1.threw THEN H1 ELSE Trace(H1, "return", n, 0)

updateChildren(H, cs, i) ==
    IF i > Len(cs)
    THEN H
    ELSE LET H1 == update(H, cs[i]) IN
         IF H1.threw THEN H1 ELSE updateChildren(H1, cs, i + 1)

\* the objects on which a call traced the event e
EnteredSet(log, e) == {log[i].node : i \in {j \in 1..Len(log) : log[j].ev = e}}

(* ------------------------------ shapes --------------------------------- *)
\* values handed to addShape(): instances of the CANNON shape classes, each
\* with the type tag and the fields its class carries, and values that are
\* no shapes (a number, a plain object that only looks like a sphere)
Sphere(r) == [class |-> "Sphere", type |-> "SPHERE", radius |-> r]
Box(x, y, z) ==
    [class |-> "Box", type |-> "BOX", halfExtents |-> [x |-> x, y |-> y, z |-> z]]
ConvexPolyhedron(vs, fs) ==
    [class |-> "ConvexPolyhedron", type |-> "CONVEXPOLYHEDRON",
     vertices |-> vs, faces |-> fs]
Trimesh(vs, is) ==
    [class |-> "Trimesh", type |-> "TRIMESH", vertices |-> vs, indices |-> is]
Plane == [class |-> "Plane", type |-> "PLANE"]
Number(v) == [class |-> "Number", value |-> v]
PlainObject(r) == [class |-> "Object", type |-> "SPHERE", radius |-> r]

Arguments ==
    {Sphere(2), Box(1, 2, 3), ConvexPolyhedron(<<1, 2, 3>>, <<<<1, 2, 3>>>>),
     Trimesh(<<1, 2, 3>>, <<1, 2, 3>>), Plane, Number(5), PlainObject(1)}

\* x instanceof CANNON.Shape
InstanceOfShape(x) ==
    x.class \in {"Sphere", "Box", "ConvexPolyhedron", "Trimesh", "Plane"}

\* an addShape that hands every argument to the body
addShapeUnchecked(H, n, shape) ==
    [H EXCEPT !.bodies[H.obj[n].body].shapes = Append(@, shape)]

\* if(shape instanceof CANNON.Shape) this.body.addShape(shape)
addShape(H, n, shape) ==
    IF InstanceOfShape(shape)
    THEN [H EXCEPT !.bodies[H.obj[n].body].shapes = Append(@, shape)]
    ELSE H

(* ------------------------------ toJSON --------------------------------- *)
\* a serialisation that knows spheres only
ShapeValuesSphereOnly(shape) ==
    IF shape.type = "SPHERE"
    THEN [type |-> shape.type, radius |-> shape.radius]
    ELSE [type |-> shape.type]

\* values of one entry of data.object.body.shapes
ShapeValues(shape) ==
    IF shape.type = "SPHERE"
    THEN [type |-> shape.type, radius |-> shape.radius]
    ELSE IF shape.type = "BOX"
    THEN [type |-> shape.type,
          halfExtents |-> [x |-> shape.halfExtents.x,
                           y |-> shape.halfExtents.y,
                           z |-> shape.halfExtents.z]]
    ELSE IF shape.type = "CONVEXPOLYHEDRON"
    THEN [type |-> shape.type, vertices |-> shape.vertices,
          faces |-> shape.faces]
    ELSE [type |-> shape.type]

\* the document toJSON() returns: the envelope of the base class with the
\* body record added.  The damping, sleep and collision filter scalars are
\* copied like type and mass and are left out, as no operation writes them.
toJSON(H, n) ==
    LET b == H.bodies[H.obj[n].body] IN
    [object |->
        [name |-> "physics", type |-> "Physics",
         body |-> [type |-> b.type, mass |-> b.mass,
                   fixedRotation |-> b.fixedRotation,
                   shapes |-> [i \in 1..Len(b.shapes) |-> ShapeValues(b.shapes[i])]]]]

(* ----------------------------- scene graphs ---------------------------- *)
Kinds == {"Scene", "Object3D", "Physics", "Broken"}

\* A scene graph of k objects: object 1 is the root and every other object is
\* attached below an earlier one; what hangs below a PhysicsObject is a
\* PhysicsObject or an object whose initialize()/update() call fails, which
\* is a leaf; a scene or container holds at least one object.
WellFormed(k, par, knd) ==
    /\ \A n \in 1..k :
          /\ par[n] < n
          /\ (par[n] = null) <=> (n = 1)
          /\ knd[n] \in {"Scene", "Object3D"} => \E c \in 1..k : par[c] = n
          /\ knd[n] = "Broken" => par[n] # null /\ knd[par[n]] = "Physics"
          /\ (par[n] # null /\ knd[par[n]] = "Physics")
                => knd[n] \in {"Physics", "Broken"}
          /\ (par[n] # null) => knd[par[n]] # "Broken"

Graphs(k) ==
    {g \in [par : [1..k -> 0..(k - 1)], knd : [1..k -> Kinds]] :
        WellFormed(k, g.par, g.knd)}

Constructed(g) ==
    LET N == DOMAIN g.par
        P == {n \in N : g.knd[n] = "Physics"}
    IN  /\ parent = g.par
        /\ kind = g.knd
        /\ obj = [n \in P |-> PhysicsObject(n)]
        /\ bodies = [n \in P |-> NewBody]
        /\ worlds = [s \in {n \in N : g.knd[n] = "Scene"} |-> <<>>]
        /\ started = {}
        /\ selected \in P
        /\ args = [n \in P |-> <<>>]
        /\ ret = Result("new", 0, FALSE, <<>>, 0)

Init == \E k \in 1..NumNodes : \E g \in Graphs(k) : Constructed(g)

(* ------------------------------ actions -------------------------------- *)
Returned(op, n, H) ==
    /\ obj' = H.obj
    /\ bodies' = H.bodies
    /\ worlds' = H.worlds
    /\ ret' = Result(op, n, H.threw, H.log, 0)

\* the runtime calls initialize() once on an object
CallInitialize(n) ==
    /\ n \notin started
    /\ LET H == initialize(Heap, n) IN
          /\ Returned("initialize", n, H)
          /\ started' = started \cup EnteredSet(H.log, "initialize")
    /\ UNCHANGED <<parent, kind, selected, args>>

\* the runtime calls update() on every tick
CallUpdate(n) ==
    /\ Returned("update", n, update(Heap, n))
    /\ UNCHANGED <<parent, kind, started, selected, args>>

\* a change made from outside the object, to the object the panel is attached to
Environment ==
    /\ ret' = Result("environment", 0, FALSE, <<>>, 0)
    /\ UNCHANGED <<parent, kind, worlds, started, selected, args>>

\* position box onChange: if(self.obj !== null) self.obj.position.set(...)
SetPosition(p) ==
    /\ selected # null
    /\ p # obj[selected].position
    /\ obj' = [obj EXCEPT ![selected].position = p]
    /\ UNCHANGED bodies
    /\ Environment

\* rotation box onChange: if(self.obj !== null) self.obj.rotation.set(...)
SetRotation(q) ==
    /\ selected # null
    /\ q # obj[selected].quaternion
    /\ obj' = [obj EXCEPT ![selected].quaternion = q]
    /\ UNCHANGED bodies
    /\ Environment

\* the body's handles registered with a world
Registered(h) ==
    \E s \in Scenes : \E i \in 1..Len(worlds[s]) : worlds[s][i] = h

\* the physics world of a scene advances and moves the body registered with it
WorldStep(p, q) ==
    LET h == obj[selected].body IN
    /\ Registered(h)
    /\ <<p, q>> # <<bodies[h].position, bodies[h].quaternion>>
    /\ bodies' = [bodies EXCEPT ![h].position = p, ![h].quaternion = q]
    /\ UNCHANGED obj
    /\ Environment

\* the body is configured to keep, or not to keep, its orientation
SetFixedRotation(f) ==
    LET h == obj[selected].body IN
    /\ f # bodies[h].fixedRotation
    /\ bodies' = [bodies EXCEPT ![h].fixedRotation = f]
    /\ UNCHANGED obj
    /\ Environment

Next ==
    \/ \E n \in Physics : CallInitialize(n)
    \/ \E n \in Physics : CallUpdate(n)
    \/ \E p \in Coords : SetPosition(p)
    \/ \E q \in Coords : SetRotation(q)
    \/ \E p, q \in Coords : WorldStep(p, q)
    \/ \E f \in BOOLEAN : SetFixedRotation(f)

\* the life cycle of the objects of a scene graph: initialize and update
Spec == Init /\ [][Next]_vars

\* shapes are given to the object the panel is attached to
CallAddShape(x) ==
    /\ Len(args[selected]) < MaxShapes
    /\ LET H == addShape(Heap, selected, x) IN
          /\ obj' = H.obj
          /\ bodies' = H.bodies
          /\ worlds' = H.worlds
          /\ ret' = Result("addShape", selected, H.threw, <<>>, 0)
    /\ args' = [args EXCEPT ![selected] = Append(@, x)]
    /\ UNCHANGED <<parent, kind, started, selected>>

\* the editor saves an object
CallToJSON(n) ==
    /\ ret' = Result("toJSON", n, FALSE, <<>>, toJSON(Heap, n))
    /\ UNCHANGED <<parent, kind, obj, bodies, worlds, started, selected, args>>

\* a PhysicsObject alone, below a scene or container, or with one child
InitObject == \E k \in 1..2 : \E g \in Graphs(k) : Constructed(g)

NextObject ==
    \/ Next
    \/ \E x \in Arguments : CallAddShape(x)
    \/ \E n \in Physics : CallToJSON(n)

\* every operation of a PhysicsObject, on the smallest scene graphs
SpecObject == InitObject /\ [][NextObject]_vars

(* ======================= properties of the calls ======================= *)
Handle(n) == obj[n].body
Body(n) == bodies[obj[n].body]

\* the scenes whose world holds the handle h
WorldsOf(h) == {s \in Scenes : \E i \in 1..Len(worlds[s]) : worlds[s][i] = h}

\* the nearest ancestor of n that is a Scene, null if there is none
RECURSIVE NearestScene(_)
NearestScene(n) ==
    IF parent[n] = null THEN null
    ELSE IF kind[parent[n]] = "Scene" THEN parent[n]
    ELSE NearestScene(parent[n])

\* the PhysicsObjects the last call entered, and those it returned from
Visited == EnteredSet(ret.log, ret.op) \cap Physics
Completed == EnteredSet(ret.log, "return")

\* where in the trace of the last call the event e of object n is, 0 if nowhere
At(e, n) ==
    LET I == {i \in 1..Len(ret.log) : ret.log[i].ev = e /\ ret.log[i].node = n}
    IN  IF I = {} THEN 0 ELSE CHOOSE i \in I : \A j \in I : i <= j

\* C1: after initialize() the body of every object the call initialized is
\* registered with exactly one world, the world of the nearest Scene ancestor,
\* which is also the object's world field; with no Scene ancestor it is
\* registered with no world.
C1_NearestSceneWorld ==
    ret.op = "initialize" =>
        \A n \in Visited :
            /\ obj[n].world = NearestScene(n)
            /\ WorldsOf(Handle(n)) =
                   IF NearestScene(n) = null THEN {} ELSE {NearestScene(n)}

\* C2: initialize() and update() never throw and never halt the walk: the
\* call returns normally and every PhysicsObject among the children of an
\* object the call reached has been initialized / updated, whatever its
\* siblings are.
C2_WalkNeverHalts ==
    ret.op \in {"initialize", "update"} =>
        /\ ~ret.threw
        /\ \A n \in Visited : \A c \in Physics :
               parent[c] = n => c \in Completed

\* C3: an update() call leaves the orientation of every object whose body
\* has fixedRotation set as it was before the call.
C3_FixedRotationKeepsOrientation ==
    [][ret'.op = "update" =>
          \A n \in Physics :
              Body(n).fixedRotation => obj'[n].quaternion = obj[n].quaternion]_vars

C3_Witness ==
    /\ ret.op = "update"
    /\ \E n \in Visited :
          /\ Body(n).fixedRotation
          /\ Body(n).quaternion = 1
          /\ obj[n].quaternion = 0

\* C4: after update() the orientation of every object the call updated whose
\* body has fixedRotation unset is the orientation its body had when the call
\* was made.
C4_FreeRotationCopiesOrientation ==
    [][ret'.op = "update" =>
          \A n \in EnteredSet(ret'.log, "update") \cap Physics :
              ~Body(n).fixedRotation => obj'[n].quaternion = Body(n).quaternion]_vars

C4_Witness ==
    /\ ret.op = "update"
    /\ \E n \in Visited :
          /\ ~Body(n).fixedRotation
          /\ Body(n).quaternion = 1
          /\ obj[n].quaternion = 1
          /\ obj[n].position = 0

\* C5: after update() the position of every object the call updated is the
\* position its body had when the call was made, with fixedRotation set or
\* unset, bound to a world or not.
C5_PositionAlwaysCopied ==
    [][ret'.op = "update" =>
          \A n \in EnteredSet(ret'.log, "update") \cap Physics :
              obj'[n].position = Body(n).position]_vars

C5_Witness ==
    /\ ret.op = "update"
    /\ \E n \in Visited :
          /\ Body(n).fixedRotation
          /\ obj[n].world = null
          /\ Body(n).position = 1
          /\ obj[n].position = 1
          /\ obj[n].quaternion # Body(n).quaternion

\* C6: initialize() on an object without a Scene ancestor completes without
\* error, leaves world null, registers the body with no world and still seeds
\* the body's position and orientation from the object.
C6_InitializeWithoutScene ==
    (ret.op = "initialize" /\ NearestScene(ret.node) = null) =>
        /\ ~ret.threw
        /\ obj[ret.node].world = null
        /\ WorldsOf(Handle(ret.node)) = {}
        /\ Body(ret.node).position = obj[ret.node].position
        /\ Body(ret.node).quaternion = obj[ret.node].quaternion

\* C7: addShape() returns without error; the shape list of a body is the
\* sequence of the arguments of the addShape() calls that are shapes, in the
\* order of the calls: a shape is appended, anything else changes nothing.
C7_ShapesAreValidArguments ==
    /\ ret.op = "addShape" => ~ret.threw
    /\ \A n \in Physics : Body(n).shapes = SelectSeq(args[n], InstanceOfShape)

C7_Witness ==
    /\ ret.op = "addShape"
    /\ \E n \in Physics :
          /\ Len(args[n]) = 2
          /\ ~InstanceOfShape(args[n][2])
          /\ Body(n).shapes = <<args[n][1]>>

\* the fields an entry of body.shapes carries for a shape of the given type
VariantFields(type) ==
    IF type = "SPHERE" THEN {"type", "radius"}
    ELSE IF type = "BOX" THEN {"type", "halfExtents"}
    ELSE IF type = "CONVEXPOLYHEDRON" THEN {"type", "vertices", "faces"}
    ELSE {"type"}

\* C8: toJSON() emits a body.shapes array as long as the shape list whose
\* entry i carries the type of shape i and exactly the fields of its variant,
\* with the values of the shape, in insertion order.
C8_ShapesSerialized ==
    ret.op = "toJSON" =>
        LET shapes == Body(ret.node).shapes
            json == ret.value.object.body.shapes
        IN  /\ Len(json) = Len(shapes)
            /\ \A i \in 1..Len(shapes) :
                  /\ DOMAIN json[i] = VariantFields(shapes[i].type)
                  /\ \A f \in DOMAIN json[i] : json[i][f] = shapes[i][f]

C8_Witness ==
    /\ ret.op = "toJSON"
    /\ Len(ret.value.object.body.shapes) = 2
    /\ ret.value.object.body.shapes[1] =
           [type |-> "BOX", halfExtents |-> [x |-> 1, y |-> 2, z |-> 3]]
    /\ ret.value.object.body.shapes[2] = [type |-> "SPHERE", radius |-> 2]

\* C9: one initialize() call on an object initializes every child, in the
\* order of the children list, each child starting after the object's own
\* seeding and world binding and after the child before it.
C9_ChildrenInitializedInOrder ==
    ret.op = "initialize" =>
        \A n \in Visited :
            LET cs == Children(n) IN
            \A i \in 1..Len(cs) :
                /\ At("return", cs[i]) # 0
                /\ At("bound", n) < At("initialize", cs[i])
                /\ i > 1 => At("return", cs[i - 1]) < At("initialize", cs[i])

\* C10: a PhysicsObject is constructed with a body handle of its own that is
\* DYNAMIC, of mass 1, without shapes and bound to no world, and no call
\* makes the object refer to another handle.
C10_BodyNeverReplaced ==
    /\ \A n \in Physics :
          /\ Body(n).type = "DYNAMIC" /\ Body(n).mass = 1
          /\ Body(n).shapes = <<>> /\ obj[n].world = null
          /\ \A m \in Physics : Handle(m) = Handle(n) => m = n
    /\ [][\A n \in Physics : obj'[n].body = obj[n].body]_vars

C10_Witness ==
    /\ ret.op = "toJSON"
    /\ ret.node \in started
    /\ Handle(ret.node) = ret.node
    /\ Len(Body(ret.node).shapes) = 2
    /\ obj[ret.node].world # null
    /\ obj[ret.node].position = 1 /\ Body(ret.node).position = 1
    /\ obj[ret.node].quaternion = 0 /\ Body(ret.node).quaternion = 1

====
